---- MODULE Spec2Model ----
(***************************************************************************)
(* Descriptor-policy inference and signature accounting of                 *)
(* src/src/descriptors/analysis.rs.                                        *)
(*                                                                         *)
(* The analysis is a set of pure functions.  The state machine below is a  *)
(* caller of that API: from the idle state it calls one function on one    *)
(* input drawn from a bounded set, and the state then holds the call and   *)
(* what it returned.  A policy returned by from_multipath_descriptor can   *)
(* afterwards be queried with spend_info on both of its paths.             *)
(***************************************************************************)
EXTENDS Integers, Sequences, FiniteSets, TLC

VARIABLES
    pc,      \* "idle" before the call, "returned" after it, "accounted" after the policy was queried
    call,    \* [op |-> name of the function called, arg |-> its argument]
    ret,     \* what the call returned
    signed,  \* the observed signers handed to spend_info on a returned policy
    spend    \* the PartialSpendInfo computed from a returned policy

vars == <<pc, call, ret, signed, spend>>

----------------------------------------------------------------------------
(* Bounds of the model. *)

\* Longest list of sub-policies of an enumerated recovery threshold node.
MaxSubs == 4
\* Longest list of observed signers handed to PathInfo::spend_info.
MaxSigners == 3
\* Longest list of observed signers checked against both paths of a policy.
MaxPolicySigners == 1
\* csv_check is probed on the CsvProbe lowest and highest values of each half.
CsvProbe == 20

----------------------------------------------------------------------------
(* Rust's Option and Result. *)

Some(v) == [some |-> TRUE, v |-> v]
None == [some |-> FALSE]

Ok(v) == [ok |-> TRUE, val |-> v]
Err(e) == [ok |-> FALSE, err |-> e]
\* A panic (expect / assert!) is not a return value.
Panic(msg) == [ok |-> FALSE, panic |-> msg]
IsPanic(r) == "panic" \in DOMAIN r

\* LianaDescError, the three kinds analysis.rs returns.
IncompatibleDesc == [kind |-> "IncompatibleDesc"]
InsaneTimelock(csv_value) == [kind |-> "InsaneTimelock", csv |-> csv_value]
InvalidKey(key) == [kind |-> "InvalidKey", key |-> key]

U16Max == 65535

\* A u32 is held as its two 16-bit halves, <<high, low>>.
U32(high, low) == <<high, low>>
\* The u32 of a number below 2^31.
U32Of(n) == U32(n \div (U16Max + 1), n % (U16Max + 1))

\* All sequences over S of a length in lo..hi.
SeqsOf(S, lo, hi) == UNION {[1..n -> S] : n \in lo..hi}

----------------------------------------------------------------------------
(* descriptor::DescriptorPublicKey: three variants, of which only MultiXPub *)
(* carries several derivation paths.                                       *)

DescSingle(key, origin) ==
    [variant |-> "Single", key |-> key, origin |-> origin]
XPub(xkey, origin, derivation_path, wildcard) ==
    [variant |-> "XPub", xkey |-> xkey, origin |-> origin,
     derivation_path |-> derivation_path, wildcard |-> wildcard]
MultiXPub(xkey, origin, derivation_paths, wildcard) ==
    [variant |-> "MultiXPub", xkey |-> xkey, origin |-> origin,
     derivation_paths |-> derivation_paths, wildcard |-> wildcard]

\* is_valid_desc_key with `origin.is_some()` dropped.
is_valid_desc_key_NoOriginCheck(key) ==
    IF key.variant \in {"Single", "XPub"}
    THEN FALSE
    ELSE LET der_paths == key.derivation_paths
             len == Len(der_paths[1])
         IN  /\ key.wildcard = "Unhardened"
             /\ Len(der_paths) = 2
             /\ der_paths[1][len] = 0
             /\ der_paths[2][len] = 1

is_valid_desc_key(key) ==
    IF key.variant \in {"Single", "XPub"}
    THEN FALSE
    ELSE LET der_paths == key.derivation_paths
             \* der_paths.get(0).expect("Cannot be empty").len()
             len == Len(der_paths[1])
         IN  /\ key.origin.some
             /\ key.wildcard = "Unhardened"
             /\ Len(der_paths) = 2
             /\ der_paths[1][len] = 0
             /\ der_paths[2][len] = 1

\* csv_check with the narrowing done by a truncating cast.
csv_check_Truncating(csv_value) ==
    IF csv_value # U32(0, 0)
    THEN Ok(csv_value[2])
    ELSE Err(InsaneTimelock(csv_value))

\* u16::try_from(u32): fails above u16::MAX, else the low 16 bits.
U16TryFrom(v) == IF v[1] > 0 THEN None ELSE Some(v[2])

csv_check(csv_value) ==
    IF csv_value # U32(0, 0)
    THEN LET r == U16TryFrom(csv_value)
         IN  IF r.some THEN Ok(r.v) ELSE Err(InsaneTimelock(csv_value))
    ELSE Err(InsaneTimelock(csv_value))

\* key_origin: the origin of a multixpub, None for any other key.
key_origin(key) ==
    IF key.variant = "MultiXPub" THEN key.origin ELSE None

----------------------------------------------------------------------------
(* policy::Semantic<DescriptorPublicKey>.  After stands for every node     *)
(* that is neither a key, a relative timelock nor a threshold.             *)

Key(key) == [t |-> "Key", key |-> key]
Older(val) == [t |-> "Older", val |-> val]
After(val) == [t |-> "After", val |-> val]
Threshold(k, subs) == [t |-> "Threshold", k |-> k, subs |-> subs]

is_single_key_or_multisig(policy) ==
    CASE policy.t = "Key" -> TRUE
      [] policy.t = "Threshold" ->
            \A i \in 1..Len(policy.subs) : policy.subs[i].t = "Key"
      [] OTHER -> FALSE

\* enum PathInfo
Single(key) == [variant |-> "Single", key |-> key]
Multi(k, keys) == [variant |-> "Multi", k |-> k, keys |-> keys]


----------------------------------------------------------------------------
(* impl PathInfo *)

\* from_primary_path keeping the keys in reverse sub-node order.
from_primary_path_Reversed(policy) ==
    CASE policy.t = "Key" -> Ok(Single(policy.key))
      [] policy.t = "Threshold" ->
            IF \E i \in 1..Len(policy.subs) : policy.subs[i].t # "Key"
            THEN Err(IncompatibleDesc)
            ELSE Ok(Multi(policy.k,
                          [i \in 1..Len(policy.subs) |->
                              policy.subs[Len(policy.subs) + 1 - i].key]))
      [] OTHER -> Err(IncompatibleDesc)

from_primary_path(policy) ==
    CASE policy.t = "Key" -> Ok(Single(policy.key))
      [] policy.t = "Threshold" ->
            \* collect() into a Result: the first non-key sub is the error
            IF \E i \in 1..Len(policy.subs) : policy.subs[i].t # "Key"
            THEN Err(IncompatibleDesc)
            ELSE Ok(Multi(policy.k,
                          [i \in 1..Len(policy.subs) |-> policy.subs[i].key]))
      [] OTHER -> Err(IncompatibleDesc)

\* Index of the first older() among subs, 0 when there is none (find_map).
FirstTimelockSub(subs) ==
    IF \E i \in 1..Len(subs) : subs[i].t = "Older"
    THEN CHOOSE i \in 1..Len(subs) :
            subs[i].t = "Older" /\ \A j \in 1..(i - 1) : subs[j].t # "Older"
    ELSE 0

\* Index of the first sub that is a key or a multisig, 0 when there is none
\* (find).
FirstKeysSub(subs) ==
    IF \E i \in 1..Len(subs) : is_single_key_or_multisig(subs[i])
    THEN CHOOSE i \in 1..Len(subs) :
            /\ is_single_key_or_multisig(subs[i])
            /\ \A j \in 1..(i - 1) : ~is_single_key_or_multisig(subs[j])
    ELSE 0

\* The general case (k == 2 over 2 subs) of from_recovery_path.
GeneralCase(subs) ==
    LET tl == FirstTimelockSub(subs)
        ks == FirstKeysSub(subs)
    IN  IF tl = 0 THEN Err(IncompatibleDesc)
        ELSE LET tl_value == csv_check(subs[tl].val)
             IN  IF ~tl_value.ok THEN tl_value
                 ELSE IF ks = 0 THEN Err(IncompatibleDesc)
                 ELSE LET info == from_primary_path(subs[ks])
                      IN  IF info.ok THEN Ok(<<tl_value.val, info.val>>)
                                     ELSE info

\* A second older() replaces the first instead of being refused.
OlderArm_NoDuplicateCheck(tl_value, val) ==
    LET c == csv_check(val)
    IN  IF c.ok THEN Ok(Some(c.val)) ELSE c

\* The older() arm of the N-of-N loop.
OlderArm(tl_value, val) ==
    IF tl_value.some
    THEN Err(IncompatibleDesc)
    ELSE LET c == csv_check(val)
         IN  IF c.ok THEN Ok(Some(c.val)) ELSE c

\* keys.push(key) putting the key in front.
PushKey_Front(keys, key) == <<key>> \o keys

\* keys.push(key)
PushKey(keys, key) == Append(keys, key)

\* The loop of the N-of-N case over subs[i..].
RECURSIVE NofNLoop(_, _, _, _)
NofNLoop(subs, i, tl_value, keys) ==
    IF i > Len(subs)
    THEN Ok([tl_value |-> tl_value, keys |-> keys])
    ELSE LET sub == subs[i]
         IN  CASE sub.t = "Key" ->
                    NofNLoop(subs, i + 1, tl_value, PushKey(keys, sub.key))
               [] sub.t = "Older" ->
                    LET r == OlderArm(tl_value, sub.val)
                    IN  IF r.ok THEN NofNLoop(subs, i + 1, r.val, keys) ELSE r
               [] OTHER -> Err(IncompatibleDesc)

\* The N-of-N result with the timelock still counted in the threshold.
NofNPathInfo_KeepsThreshold(k, keys) == Multi(k, keys)

\* The path an N-of-N recovery node is reconstructed as.
NofNPathInfo(k, keys) == Multi(k - 1, keys)

\* The N-of-N case (k == len(subs) > 2) of from_recovery_path.
NofNCase(k, subs) ==
    LET r == NofNLoop(subs, 1, None, <<>>)
    IN  IF ~r.ok THEN r
        ELSE IF ~(Len(r.val.keys) > 1) THEN Panic("assertion failed: keys.len() > 1")
        ELSE IF ~r.val.tl_value.some THEN Err(IncompatibleDesc)
        ELSE Ok(<<r.val.tl_value.v, NofNPathInfo(k, r.val.keys)>>)

from_recovery_path(policy) ==
    IF policy.t # "Threshold" THEN Err(IncompatibleDesc)
    ELSE LET k == policy.k
             subs == policy.subs
         IN  IF k = 2 /\ Len(subs) = 2 THEN GeneralCase(subs)
             ELSE IF k = Len(subs) /\ Len(subs) > 2 THEN NofNCase(k, subs)
             ELSE Err(IncompatibleDesc)

\* The keys of a path, in order.
PathKeys(path) ==
    IF path.variant = "Single" THEN <<path.key>> ELSE path.keys

thresh_origins(path) ==
    LET keys == PathKeys(path)
    IN  IF \E i \in 1..Len(keys) : ~key_origin(keys[i]).some
        THEN Panic("Must be a multixpub with an origin.")
        ELSE [threshold |-> IF path.variant = "Single" THEN 1 ELSE path.k,
              origins |-> {key_origin(keys[i]).v : i \in 1..Len(keys)}]

\* An entry is set to 1 whether or not it exists.
CountSignature_Once(signed_pubkeys, parent_origin) ==
    [o \in (DOMAIN signed_pubkeys) \cup {parent_origin} |->
        IF o = parent_origin THEN 1 ELSE signed_pubkeys[o]]

\* signed_pubkeys after one more signature for parent_origin.
CountSignature(signed_pubkeys, parent_origin) ==
    [o \in (DOMAIN signed_pubkeys) \cup {parent_origin} |->
        IF o = parent_origin
        THEN IF o \in DOMAIN signed_pubkeys THEN signed_pubkeys[o] + 1 ELSE 1
        ELSE signed_pubkeys[o]]

\* The origin a signer's key derives from: its path without the last two
\* indexes; None for a path shorter than that (the loop's `continue`).
ParentOrigin(signer) ==
    IF Len(signer[2]) < 2
    THEN None
    ELSE Some(<<signer[1], SubSeq(signer[2], 1, Len(signer[2]) - 2)>>)

\* The loop of spend_info over all_pubkeys_signed[i..].
RECURSIVE SpendLoop(_, _, _, _, _)
SpendLoop(all_pubkeys_signed, i, origins, sigs_count, signed_pubkeys) ==
    IF i > Len(all_pubkeys_signed)
    THEN [sigs_count |-> sigs_count, signed_pubkeys |-> signed_pubkeys]
    ELSE LET parent_origin == ParentOrigin(all_pubkeys_signed[i])
         IN  IF parent_origin.some /\ parent_origin.v \in origins
             THEN SpendLoop(all_pubkeys_signed, i + 1, origins, sigs_count + 1,
                            CountSignature(signed_pubkeys, parent_origin.v))
             ELSE SpendLoop(all_pubkeys_signed, i + 1, origins, sigs_count,
                            signed_pubkeys)

\* struct PathSpendInfo
PathSpendInfo(threshold, sigs_count, signed_pubkeys) ==
    [threshold |-> threshold, sigs_count |-> sigs_count,
     signed_pubkeys |-> signed_pubkeys]

spend_info(path, all_pubkeys_signed) ==
    LET to == thresh_origins(path)
    IN  IF IsPanic(to) THEN to
        ELSE LET r == SpendLoop(all_pubkeys_signed, 1, to.origins, 0, <<>>)
             IN  PathSpendInfo(to.threshold, r.sigs_count, r.signed_pubkeys)


----------------------------------------------------------------------------
(* impl LianaPolicy *)

\* struct LianaPolicy
LianaPolicy(primary_path, recovery_path) ==
    [primary_path |-> primary_path, recovery_path |-> recovery_path]

\* descriptor::Descriptor: the variant, and for Wsh the WshInner variant.  The
\* script it wraps is held as what the external library reports of it: the
\* keys ms.iter_pk() yields, in that order, and the policy
\* ms.lift().normalized() evaluates to.
Descriptor(variant, inner, ms) ==
    [variant |-> variant, inner |-> inner, ms |-> ms]
Miniscript(pks, policy) == [pks |-> pks, policy |-> policy]

iter_pk(ms) == ms.pks
lift_normalized(ms) == ms.policy

\* find_map picking the last invalid key instead of the first.
invalid_key_Last(pks) ==
    IF \E i \in 1..Len(pks) : ~is_valid_desc_key(pks[i])
    THEN Some(pks[CHOOSE i \in 1..Len(pks) :
                    /\ ~is_valid_desc_key(pks[i])
                    /\ \A j \in (i + 1)..Len(pks) : is_valid_desc_key(pks[j])])
    ELSE None

\* The first key of the script that is not a valid descriptor key.
invalid_key(pks) ==
    IF \E i \in 1..Len(pks) : ~is_valid_desc_key(pks[i])
    THEN Some(pks[CHOOSE i \in 1..Len(pks) :
                    /\ ~is_valid_desc_key(pks[i])
                    /\ \A j \in 1..(i - 1) : is_valid_desc_key(pks[j])])
    ELSE None

\* The top-level check without the `subs.len() != 2` test.
TopLevelSubs_AnyLength(policy) ==
    IF policy.t = "Threshold" /\ policy.k = 1
    THEN Ok(policy.subs)
    ELSE Err(IncompatibleDesc)

\* The subs of the top-level node: threshold(1, subs) with 2 subs.
TopLevelSubs(policy) ==
    IF policy.t = "Threshold" /\ policy.k = 1
    THEN IF Len(policy.subs) # 2 THEN Err(IncompatibleDesc)
                                 ELSE Ok(policy.subs)
    ELSE Err(IncompatibleDesc)

\* The fold telling the two spending paths apart, over subs[i..].
RECURSIVE FoldPaths(_, _, _, _)
FoldPaths(subs, i, prim_sub, reco_sub) ==
    IF i > Len(subs)
    THEN <<prim_sub, reco_sub>>
    ELSE IF is_single_key_or_multisig(subs[i])
         THEN FoldPaths(subs, i + 1, Some(subs[i]), reco_sub)
         ELSE FoldPaths(subs, i + 1, prim_sub, Some(subs[i]))

from_multipath_descriptor(desc) ==
    IF desc.variant # "Wsh" THEN Err(IncompatibleDesc)
    ELSE IF desc.inner # "Ms" THEN Err(IncompatibleDesc)
    ELSE LET ms == desc.ms
             bad == invalid_key(iter_pk(ms))
         IN  IF bad.some THEN Err(InvalidKey(bad.v))
             ELSE LET subs == TopLevelSubs(lift_normalized(ms))
                  IN  IF ~subs.ok THEN subs
                      ELSE LET paths == FoldPaths(subs.val, 1, None, None)
                           IN  IF ~paths[1].some THEN Err(IncompatibleDesc)
                               ELSE IF ~paths[2].some THEN Err(IncompatibleDesc)
                               ELSE LET primary_path == from_primary_path(paths[1].v)
                                        recovery_path == from_recovery_path(paths[2].v)
                                    IN  IF ~primary_path.ok THEN primary_path
                                        ELSE IF ~recovery_path.ok THEN recovery_path
                                        ELSE Ok(LianaPolicy(primary_path.val,
                                                            recovery_path.val))

\* LianaPolicy::primary_path and LianaPolicy::recovery_path
primary_path(policy) == policy.primary_path
recovery_path(policy) == policy.recovery_path

\* struct PartialSpendInfo, with both paths evaluated.
PartialSpendInfo(primary, recovery) ==
    [primary_path |-> primary, recovery_path |-> recovery]


----------------------------------------------------------------------------
(* The inputs the calls are made on. *)

Receive == <<0>>
Change == <<1>>
OriginA == <<"aaaaaaaa", <<48, 1>>>>

\* Valid descriptor keys: [fingerprint/path]xpub/<0;1>/*
KA == MultiXPub("xpubA", Some(OriginA), <<Receive, Change>>, "Unhardened")
KB == MultiXPub("xpubB", Some(<<"bbbbbbbb", <<48, 1>>>>), <<Receive, Change>>, "Unhardened")
KC == MultiXPub("xpubC", Some(<<"cccccccc", <<48, 1>>>>), <<Receive, Change>>, "Unhardened")
KD == MultiXPub("xpubD", Some(<<"dddddddd", <<48, 1>>>>), <<Receive, Change>>, "Unhardened")
KE == MultiXPub("xpubE", Some(<<"eeeeeeee", <<48, 1>>>>), <<Receive, Change>>, "Unhardened")
\* The xpub of KA derived once more: [aaaaaaaa/48/1]xpubA/7/<0;1>/*
KA2 == MultiXPub("xpubA", Some(OriginA), <<<<7, 0>>, <<7, 1>>>>, "Unhardened")
\* A master xpub given with its fingerprint alone: [ffffffff]xpubM/<0;1>/*
KM == MultiXPub("xpubM", Some(<<"ffffffff", <<>>>>), <<Receive, Change>>, "Unhardened")

ValidKeys == {KA, KB, KC, KD, KE, KA2, KM}

\* Keys is_valid_desc_key refuses, one per reason.
KNoOrigin == MultiXPub("xpubN", None, <<Receive, Change>>, "Unhardened")
KHardened == MultiXPub("xpubH", Some(<<"11111111", <<48, 1>>>>), <<Receive, Change>>, "Hardened")
KNoWildcard == MultiXPub("xpubW", Some(<<"22222222", <<48, 1>>>>), <<Receive, Change>>, "None")
KThreePaths == MultiXPub("xpubT", Some(<<"33333333", <<48, 1>>>>), <<<<0>>, <<1>>, <<2>>>>, "Unhardened")
KSwapped == MultiXPub("xpubS", Some(<<"44444444", <<48, 1>>>>), <<Change, Receive>>, "Unhardened")
KOtherIndex == MultiXPub("xpubO", Some(<<"55555555", <<48, 1>>>>), <<<<0>>, <<2>>>>, "Unhardened")
KXPub == XPub("xpubX", Some(<<"66666666", <<48, 1>>>>), <<0>>, "Unhardened")
KSingle == DescSingle("02abcdef", Some(<<"77777777", <<48, 1, 0, 3>>>>))

InvalidKeys == {KNoOrigin, KHardened, KNoWildcard, KThreePaths, KSwapped,
                KOtherIndex, KXPub, KSingle}

AllKeys == ValidKeys \cup InvalidKeys

\* The key leaves of a list of keys.
KeyLeaves(keys) == [i \in 1..Len(keys) |-> Key(keys[i])]

\* Lists of keys a multisig is made of.
KeyLists == {<<KA, KB, KC>>, <<KD, KE>>, <<KXPub, KNoOrigin>>}

\* thresh(k, key, ..): the multisigs over KeyLists.
MultiNodes ==
    UNION {{Threshold(k, KeyLeaves(keys)) : k \in 1..Len(keys)} : keys \in KeyLists}

\* A threshold of thresholds.
NestedNode == Threshold(2, <<Threshold(1, KeyLeaves(<<KA, KB>>)),
                             Threshold(1, KeyLeaves(<<KC, KD>>))>>)

\* What may stand where a primary path is expected.
PrimaryNodes == {Key(key) : key \in {KA, KA2, KM, KNoOrigin}} \cup MultiNodes
                    \cup {NestedNode, Older(U32Of(144)), After(U32Of(500000))}

\* Relative timelocks of scripts: Miniscript has no older(0).
Timelocks == {U32Of(144), U32Of(U16Max), U32Of(U16Max + 1)}

\* thresh(2, older(t), X) and thresh(2, X, older(t))
GeneralNodes ==
    UNION {{Threshold(2, <<Older(t), x>>), Threshold(2, <<x, Older(t)>>)} :
              t \in Timelocks, x \in PrimaryNodes}

\* Every threshold node of at most MaxSubs subs drawn from atoms.
ThresholdNodes(atoms) ==
    {Threshold(x[1], x[2]) :
        x \in {y \in (1..MaxSubs) \X SeqsOf(atoms, 1, MaxSubs) : y[1] <= Len(y[2])}}

\* The nodes from_recovery_path is called on directly.
RecoveryAtoms == {Key(KD), Key(KE), Older(U32Of(0)), Older(U32Of(144)),
                  After(U32Of(500000))}
RecoveryNodes == RecoveryAtoms \cup ThresholdNodes(RecoveryAtoms) \cup GeneralNodes

\* The nodes standing where a script's recovery path is expected.
ScriptAtoms == {Key(KD), Key(KE), Older(U32Of(144)), Older(U32Of(U16Max + 1))}
ScriptRecoveryNodes == ThresholdNodes(ScriptAtoms)

SmallPrimary == {Key(KA), Threshold(2, KeyLeaves(<<KA, KB, KC>>))}
SmallRecovery == {Threshold(2, <<Older(U32Of(144)), Key(KD)>>),
                  Threshold(3, <<Older(U32Of(144)), Key(KD), Key(KE)>>)}

\* or(x, y) and or(y, x) for every x of xs and y of ys
BothOrders(xs, ys) ==
    {Threshold(1, <<x, y>>) : x \in xs, y \in ys}
    \cup {Threshold(1, <<y, x>>) : x \in xs, y \in ys}

\* Top-level policies of two branches.
PairTops ==
    BothOrders(PrimaryNodes, GeneralNodes)
    \cup BothOrders(SmallPrimary, ScriptRecoveryNodes)
    \cup BothOrders({Key(key) : key \in AllKeys}, SmallRecovery)

\* Top-level policies of any other shape (and some of the right one).
OtherElems == {Key(KA), Key(KM), Key(KHardened),
               Threshold(2, KeyLeaves(<<KB, KC>>)), Older(U32Of(144))}
              \cup SmallRecovery
OtherTops ==
    OtherElems
    \cup {Threshold(x[1], x[2]) :
            x \in {y \in (1..3) \X SeqsOf(OtherElems, 1, 3) : y[1] <= Len(y[2])}}

\* The keys of a policy in the order of its leaves.
RECURSIVE KeysOf(_)
RECURSIVE KeysOfSubs(_, _)
KeysOf(policy) ==
    CASE policy.t = "Key" -> <<policy.key>>
      [] policy.t = "Threshold" -> KeysOfSubs(policy.subs, 1)
      [] OTHER -> <<>>
KeysOfSubs(subs, i) ==
    IF i > Len(subs) THEN <<>> ELSE KeysOf(subs[i]) \o KeysOfSubs(subs, i + 1)

\* The script a policy is lifted from.
ScriptOf(policy) == Miniscript(KeysOf(policy), policy)

\* No key occurs twice in a script.
NoDuplicateKeys(ms) ==
    \A i, j \in 1..Len(ms.pks) : ms.pks[i] = ms.pks[j] => i = j

Scripts ==
    {ms \in {ScriptOf(policy) : policy \in PairTops \cup OtherTops} :
        NoDuplicateKeys(ms)}

\* wsh(miniscript) descriptors, and descriptors of every other form.
WshDescriptors == {Descriptor("Wsh", "Ms", ms) : ms \in Scripts}
OtherForms == {<<"Wsh", "SortedMulti">>, <<"Sh", "Wsh">>, <<"Sh", "Ms">>,
               <<"Bare", "Ms">>, <<"Tr", "Tree">>}
OtherDescriptors ==
    {Descriptor(f[1], f[2], ScriptOf(policy)) :
        f \in OtherForms,
        policy \in BothOrders({Key(KA), Key(KNoOrigin)}, SmallRecovery)}
Descriptors == WshDescriptors \cup OtherDescriptors

\* Raw values of a relative timelock, a u32.
\* The high halves are none, bit 16, the time-unit flag (bit 22), the disable
\* flag (bit 31) and all bits set.
CsvValues ==
    {U32(high, low) :
        high \in {0, 1, 64, 32768, U16Max},
        low \in (0..CsvProbe) \cup {144} \cup ((U16Max - CsvProbe)..U16Max)}

\* Paths spend_info is called on directly.
PathInfos ==
    {Single(key) : key \in {KA, KM, KHardened, KNoOrigin, KXPub}}
    \cup UNION {{Multi(k, keys) : k \in 1..Len(keys)} :
                  keys \in {<<KA, KB, KC>>, <<KA, KA2>>, <<KA, KNoOrigin>>}}

\* Observed signers: (fingerprint, derivation path of the signing key).
SignerPool == {<<"aaaaaaaa", <<48, 1, 0, 5>>>>, <<"aaaaaaaa", <<48, 1, 1, 7>>>>,
               <<"bbbbbbbb", <<48, 1, 0, 5>>>>, <<"99999999", <<48, 1, 0, 5>>>>,
               <<"ffffffff", <<5>>>>,
               <<"ffffffff", <<0, 5>>>>}

----------------------------------------------------------------------------
(* The caller. *)

NoCall == [op |-> "none"]
NoRet == [ok |-> FALSE, none |-> TRUE]
NoSpend == [none |-> TRUE]

Init ==
    /\ pc = "idle"
    /\ call = NoCall
    /\ ret = NoRet
    /\ signed = <<>>
    /\ spend = NoSpend

CsvCheck ==
    /\ pc = "idle"
    /\ \E csv_value \in CsvValues :
        /\ call' = [op |-> "csv_check", arg |-> csv_value]
        /\ ret' = csv_check(csv_value)
    /\ pc' = "returned"
    /\ UNCHANGED <<signed, spend>>

FromRecoveryPath ==
    /\ pc = "idle"
    /\ \E policy \in RecoveryNodes :
        /\ call' = [op |-> "from_recovery_path", arg |-> policy]
        /\ ret' = from_recovery_path(policy)
    /\ pc' = "returned"
    /\ UNCHANGED <<signed, spend>>

FromMultipathDescriptor ==
    /\ pc = "idle"
    /\ \E desc \in Descriptors :
        /\ call' = [op |-> "from_multipath_descriptor", arg |-> desc]
        /\ ret' = from_multipath_descriptor(desc)
    /\ pc' = "returned"
    /\ UNCHANGED <<signed, spend>>

SpendInfo ==
    /\ pc = "idle"
    /\ \E path \in PathInfos, all_pubkeys_signed \in SeqsOf(SignerPool, 0, MaxSigners) :
        /\ call' = [op |-> "spend_info", arg |-> <<path, all_pubkeys_signed>>]
        /\ ret' = spend_info(path, all_pubkeys_signed)
    /\ pc' = "returned"
    /\ UNCHANGED <<signed, spend>>

\* The signatures of a transaction accounted against both paths of a policy.
PolicySpendInfo ==
    /\ pc = "returned"
    /\ call.op = "from_multipath_descriptor"
    /\ ret.ok
    /\ \E all_pubkeys_signed \in SeqsOf(SignerPool, 0, MaxPolicySigners) :
        /\ signed' = all_pubkeys_signed
        /\ spend' = PartialSpendInfo(
                        spend_info(primary_path(ret.val), all_pubkeys_signed),
                        spend_info(recovery_path(ret.val)[2], all_pubkeys_signed))
    /\ pc' = "accounted"
    /\ UNCHANGED <<call, ret>>

Next ==
    \/ CsvCheck
    \/ FromRecoveryPath
    \/ FromMultipathDescriptor
    \/ SpendInfo
    \/ PolicySpendInfo

Spec == Init /\ [][Next]_vars


----------------------------------------------------------------------------
(* What the claims are stated with. *)

Called(op) == pc # "idle" /\ call.op = op
Built == Called("from_multipath_descriptor")
Accepted == Built /\ ret.ok
IsWshMs(desc) == desc.variant = "Wsh" /\ desc.inner = "Ms"

Last(path) == path[Len(path)]

\* The Key Validator's contract: a multipath key with an origin, an unhardened
\* wildcard and exactly two paths, ending in 0 and in 1.
ValidDescKey(key) ==
    /\ key.variant = "MultiXPub"
    /\ key.origin.some
    /\ key.wildcard = "Unhardened"
    /\ Len(key.derivation_paths) = 2
    /\ Last(key.derivation_paths[1]) = 0
    /\ Last(key.derivation_paths[2]) = 1

AllValid(keys) == \A i \in 1..Len(keys) : ValidDescKey(keys[i])

\* A raw timelock in [1, 65535].
SaneU32(v) == v[1] = 0 /\ v[2] >= 1 /\ v[2] <= U16Max

IsKeyLeaf(s) == s.t = "Key"
OlderIdx(subs) == {i \in 1..Len(subs) : subs[i].t = "Older"}
FirstOlder(subs) == CHOOSE i \in OlderIdx(subs) : \A j \in OlderIdx(subs) : i <= j

\* The keys of the key leaves of subs, in their order.
KeyLeafKeys(subs) ==
    LET ks == SelectSeq(subs, IsKeyLeaf) IN [i \in 1..Len(ks) |-> ks[i].key]

\* The path a key leaf or a threshold of key leaves stands for.
PathOf(n) ==
    IF n.t = "Key" THEN Single(n.key)
    ELSE Multi(n.k, [i \in 1..Len(n.subs) |-> n.subs[i].key])

\* threshold(2, [older(T), X]) in either order, X a key or a multisig.
GeneralShape(n) ==
    /\ n.t = "Threshold"
    /\ n.k = 2
    /\ Len(n.subs) = 2
    /\ Cardinality(OlderIdx(n.subs)) = 1
    /\ \E i \in 1..2 : is_single_key_or_multisig(n.subs[i])

\* threshold(k, subs), k = len(subs) > 2, one older() and key leaves.
NofNShape(n) ==
    /\ n.t = "Threshold"
    /\ n.k = Len(n.subs)
    /\ Len(n.subs) > 2
    /\ Cardinality(OlderIdx(n.subs)) = 1
    /\ \A i \in 1..Len(n.subs) : n.subs[i].t \in {"Key", "Older"}

Recognized(n) == GeneralShape(n) \/ NofNShape(n)

\* The first timelock leaf of a node of the right threshold arithmetic is out
\* of [1, 65535], and in the N-of-N form only key leaves come before it.
InsaneFirstTimelock(n) ==
    /\ n.t = "Threshold"
    /\ \/ n.k = 2 /\ Len(n.subs) = 2
       \/ n.k = Len(n.subs) /\ Len(n.subs) > 2
    /\ OlderIdx(n.subs) # {}
    /\ ~SaneU32(n.subs[FirstOlder(n.subs)].val)
    /\ Len(n.subs) > 2 =>
          \A j \in 1..(FirstOlder(n.subs) - 1) : n.subs[j].t = "Key"

PathWellFormed(path) ==
    \/ path.variant = "Single"
    \/ /\ path.variant = "Multi"
       /\ 1 <= path.k
       /\ path.k <= Len(path.keys)
       /\ Len(path.keys) >= 1

----------------------------------------------------------------------------
(* The claims. *)

\* C1: in every policy from_multipath_descriptor returns, the primary path and
\* the recovery path are each Single(key) or Multi(k, keys) with
\* 1 <= k <= len(keys) and len(keys) >= 1.
C1_PathsWellFormed ==
    Accepted =>
        /\ PathWellFormed(ret.val.primary_path)
        /\ PathWellFormed(ret.val.recovery_path[2])

\* A policy whose recovery path comes from the N-of-N case and whose primary
\* path is a multisig.
C1_Witness ==
    /\ Accepted
    /\ ret.val.primary_path.variant = "Multi"
    /\ ret.val.recovery_path[2].variant = "Multi"
    /\ \E i \in 1..2 : Len(call.arg.ms.policy.subs[i].subs) > 2

\* C2: every key of both paths of a returned policy passes the Key Validator,
\* and thresh_origins and spend_info on either path do not abort.
C2_KeysValidNoAbort ==
    Accepted =>
        /\ AllValid(PathKeys(ret.val.primary_path))
        /\ AllValid(PathKeys(ret.val.recovery_path[2]))
        /\ ~IsPanic(thresh_origins(ret.val.primary_path))
        /\ ~IsPanic(thresh_origins(ret.val.recovery_path[2]))
        /\ pc = "accounted" =>
              /\ ~IsPanic(spend.primary_path)
              /\ ~IsPanic(spend.recovery_path)

\* Both paths of a policy of several keys were accounted, with a signature.
C2_Witness ==
    /\ pc = "accounted"
    /\ ret.val.primary_path.variant = "Multi"
    /\ ret.val.recovery_path[2].variant = "Multi"
    /\ Len(signed) > 0
    /\ spend.primary_path.sigs_count > 0

\* C3 as claimed: from_recovery_path fails with IncompatibleDesc, and no other
\* error, on every node that is not one of the two recognized shapes.
C3_AlwaysIncompatible ==
    (Called("from_recovery_path") /\ ~Recognized(call.arg)) =>
        ret = Err(IncompatibleDesc)

\* C3 as amended: on every node that is not one of the two recognized shapes
\* from_recovery_path fails; with InsaneTimelock carrying the raw value when
\* the first timelock leaf it examines is out of [1, 65535], and with
\* IncompatibleDesc otherwise.
C3_FailsIncompatibleOrInsane ==
    (Called("from_recovery_path") /\ ~Recognized(call.arg)) =>
        ret = IF InsaneFirstTimelock(call.arg)
              THEN Err(InsaneTimelock(call.arg.subs[FirstOlder(call.arg.subs)].val))
              ELSE Err(IncompatibleDesc)

\* A node of two timelock leaves was refused as InsaneTimelock.
C3_Witness ==
    /\ Called("from_recovery_path")
    /\ call.arg.t = "Threshold"
    /\ Cardinality(OlderIdx(call.arg.subs)) > 1
    /\ ret = Err(InsaneTimelock(U32Of(0)))

\* The origin a signer is counted under, when its path has two indexes to drop.
SignerOrigin(signer) == <<signer[1], SubSeq(signer[2], 1, Len(signer[2]) - 2)>>

\* C4: no observed signer is counted by spend_info of both the primary and the
\* recovery path of a returned policy.
C4_DisjointAccounting ==
    pc = "accounted" =>
        \A i \in 1..Len(signed) :
            ~(/\ Len(signed[i][2]) >= 2
              /\ SignerOrigin(signed[i]) \in DOMAIN spend.primary_path.signed_pubkeys
              /\ SignerOrigin(signed[i]) \in DOMAIN spend.recovery_path.signed_pubkeys)

\* The observed signers of origin O.
SignaturesOf(O, signers) ==
    Cardinality({i \in 1..Len(signers) :
                    Len(signers[i][2]) >= 2 /\ SignerOrigin(signers[i]) = O})

\* The origins of the keys of a path.
OriginsOf(path) ==
    {PathKeys(path)[i].origin.v : i \in 1..Len(PathKeys(path))}

HasOrigin(key) == key.variant = "MultiXPub" /\ key.origin.some

C6_CsvRange ==
    /\ Called("csv_check") =>
          ret = IF SaneU32(call.arg) THEN Ok(call.arg[2])
                                     ELSE Err(InsaneTimelock(call.arg))
    /\ (Called("from_recovery_path") /\ ret.ok) => ret.val[1] \in 1..U16Max
    /\ Accepted => ret.val.recovery_path[1] \in 1..U16Max

\* 144 was accepted as 144.
C6_Witness ==
    /\ Called("csv_check")
    /\ call.arg = U32Of(144)
    /\ ret = Ok(144)

\* C7: on threshold(k, subs) with k = len(subs) > 2, one older(T) with T in
\* [1, 65535] and key leaves otherwise, from_recovery_path returns
\* (T, Multi(k - 1, keys)), keys being the key leaves in their order.
C7_NofNRecovery ==
    (/\ Called("from_recovery_path")
     /\ NofNShape(call.arg)
     /\ SaneU32(call.arg.subs[FirstOlder(call.arg.subs)].val)) =>
        /\ ret = Ok(<<call.arg.subs[FirstOlder(call.arg.subs)].val[2],
                      Multi(call.arg.k - 1, KeyLeafKeys(call.arg.subs))>>)
        /\ Len(KeyLeafKeys(call.arg.subs)) = call.arg.k - 1

\* threshold(4, [key1, key2, older(144), key1]) became Multi(3, ..).
C7_Witness ==
    /\ Called("from_recovery_path")
    /\ call.arg = Threshold(4, <<Key(KD), Key(KE), Older(U32Of(144)), Key(KD)>>)
    /\ ret = Ok(<<144, Multi(3, <<KD, KE, KD>>)>>)

\* C8: a wsh(miniscript) descriptor of valid keys whose policy is
\* threshold(1, [P, R]) in either order, P a key or a multisig and R
\* threshold(2, [older(T), X]) in either order with T in [1, 65535] and X a key
\* or a multisig, gives primary PathOf(P) and recovery (T, PathOf(X)).
C8_GeneralCaseBuilt ==
    (/\ Built
     /\ IsWshMs(call.arg)
     /\ AllValid(call.arg.ms.pks)
     /\ call.arg.ms.policy.t = "Threshold"
     /\ call.arg.ms.policy.k = 1
     /\ Len(call.arg.ms.policy.subs) = 2) =>
        \A i, j \in 1..2 :
            LET P == call.arg.ms.policy.subs[i]
                R == call.arg.ms.policy.subs[3 - i]
            IN  (/\ is_single_key_or_multisig(P)
                 /\ R.t = "Threshold"
                 /\ R.k = 2
                 /\ Len(R.subs) = 2
                 /\ R.subs[j].t = "Older"
                 /\ SaneU32(R.subs[j].val)
                 /\ is_single_key_or_multisig(R.subs[3 - j])) =>
                    ret = Ok(LianaPolicy(PathOf(P),
                                         <<R.subs[j].val[2], PathOf(R.subs[3 - j])>>))

\* Primary multi(2, [A, B, C]) and recovery and(older(144), multi(2, [D, E])).
C8_Witness ==
    /\ Built
    /\ call.arg.ms.policy =
          Threshold(1, <<Threshold(2, KeyLeaves(<<KA, KB, KC>>)),
                         Threshold(2, <<Older(U32Of(144)),
                                        Threshold(2, KeyLeaves(<<KD, KE>>))>>)>>)
    /\ ret = Ok(LianaPolicy(Multi(2, <<KA, KB, KC>>),
                            <<144, Multi(2, <<KD, KE>>)>>))

\* The top-level node is not threshold(1, subs) with 2 subs, or none or both
\* of its subs are a key or a multisig.
BadTop(policy) ==
    \/ ~(policy.t = "Threshold" /\ policy.k = 1 /\ Len(policy.subs) = 2)
    \/ Cardinality({i \in 1..2 : is_single_key_or_multisig(policy.subs[i])})
          \in {0, 2}

\* C9 as claimed: the Builder fails with IncompatibleDesc whenever the
\* top-level node is of a wrong shape.
C9_BadTopIncompatible ==
    (Built /\ BadTop(call.arg.ms.policy)) => ret = Err(IncompatibleDesc)

\* C9 as amended: for a descriptor whose keys all pass the Key Validator, the
\* Builder fails with IncompatibleDesc whenever the top-level node is of a
\* wrong shape.
C9_BadTopIncompatibleValidKeys ==
    (Built /\ AllValid(call.arg.ms.pks) /\ BadTop(call.arg.ms.policy)) =>
        ret = Err(IncompatibleDesc)

\* A primary branch that is a threshold of thresholds was refused.
C9_Witness ==
    /\ Built
    /\ IsWshMs(call.arg)
    /\ AllValid(call.arg.ms.pks)
    /\ call.arg.ms.policy =
          Threshold(1, <<NestedNode, Threshold(2, <<Older(U32Of(144)), Key(KM)>>)>>)
    /\ ret = Err(IncompatibleDesc)

\* The first key of pks that fails the Key Validator.
FirstInvalidKey(pks) ==
    pks[CHOOSE i \in 1..Len(pks) :
            ~ValidDescKey(pks[i]) /\ \A j \in 1..(i - 1) : ValidDescKey(pks[j])]

\* C10: a wsh(miniscript) descriptor with a key failing the Key Validator is
\* refused as InvalidKey carrying the first such key, whatever its policy; a
\* descriptor of any other form is refused as IncompatibleDesc.
C10_InvalidKeyFirst ==
    /\ (Built /\ IsWshMs(call.arg) /\ ~AllValid(call.arg.ms.pks)) =>
          ret = Err(InvalidKey(FirstInvalidKey(call.arg.ms.pks)))
    /\ (Built /\ ~IsWshMs(call.arg)) => ret = Err(IncompatibleDesc)

\* Two invalid keys and an insane timelock: the first invalid key is reported.
C10_Witness ==
    /\ Built
    /\ IsWshMs(call.arg)
    /\ call.arg.ms.policy =
          Threshold(1, <<Threshold(2, <<Older(U32Of(U16Max + 1)), Key(KM)>>),
                         Threshold(2, KeyLeaves(<<KXPub, KNoOrigin>>))>>)
    /\ ret = Err(InvalidKey(KXPub))

====
